---- MODULE Spec2Model ----
(***************************************************************************)
(* Model of src/app.py: the accessibility checker.  Text is modelled as    *)
(* sequences of one-character strings so that strip(), lower(),            *)
(* startswith(), the `in` substring test and the three regular expressions *)
(* are computed character by character, as the Python code computes them.  *)
(* An optional value (Python None or a value) is << >> or << value >>.     *)
(***************************************************************************)
EXTENDS Integers, Sequences, FiniteSets, TLC

VARIABLES input_text, net, page, result

vars == <<input_text, net, page, result>>

(***************************************************************************)
(* Bounds of the model.                                                    *)
(***************************************************************************)
MaxNodes == 2
MaxFill == 6
MaxStyled == 1
NumSeeds == 2

(***************************************************************************)
(* Program constants.                                                      *)
(***************************************************************************)
MinFontPx == 12
PtNum == 133
PtDen == 100
BasePx == 16
LongTextLen == 500
ColorCountThreshold == 5
TopSuggestions == 3
HttpOk == 200

(***************************************************************************)
(* Python str primitives.                                                  *)
(***************************************************************************)
UpperChars == <<"A","B","C","D","E","F","G","H","I","J","K","L","M","N","O","P","Q","R","S","T","U","V","W","X","Y","Z">>
LowerChars == <<"a","b","c","d","e","f","g","h","i","j","k","l","m","n","o","p","q","r","s","t","u","v","w","x","y","z">>
DigitChars == <<"0","1","2","3","4","5","6","7","8","9">>

SetMin(S) == CHOOSE x \in S : \A y \in S : x <= y
SetMax(S) == CHOOSE x \in S : \A y \in S : y <= x

IsSpace(c) == c \in {" ", "\t", "\n"}
IsDigit(c) == c \in {DigitChars[k] : k \in 1..10}
DigitVal(c) == (CHOOSE k \in 1..10 : DigitChars[k] = c) - 1

ToLower == [c \in {UpperChars[k] : k \in 1..26} |->
              LowerChars[CHOOSE k \in 1..26 : UpperChars[k] = c]]
ToUpper == [c \in {LowerChars[k] : k \in 1..26} |->
              UpperChars[CHOOSE k \in 1..26 : LowerChars[k] = c]]
IsUpper(c) == c \in DOMAIN ToLower
IsLower(c) == c \in DOMAIN ToUpper
LowerChar(c) == IF IsUpper(c) THEN ToLower[c] ELSE c
UpperChar(c) == IF IsLower(c) THEN ToUpper[c] ELSE c

\* str.lower()
Lower(s) == [k \in 1..Len(s) |-> LowerChar(s[k])]

\* str.strip()
Strip(s) ==
  LET keep == {k \in 1..Len(s) : ~IsSpace(s[k])}
  IN  IF keep = {} THEN << >> ELSE SubSeq(s, SetMin(keep), SetMax(keep))

\* str.title(): a cased character is upper-cased after an uncased one, lower-cased otherwise
Title(s) ==
  [k \in 1..Len(s) |->
     IF k = 1 \/ ~(IsUpper(s[k-1]) \/ IsLower(s[k-1])) THEN UpperChar(s[k]) ELSE LowerChar(s[k])]

\* str.replace(old, new) for one-character old and new
Replace(s, old, new) == [k \in 1..Len(s) |-> IF s[k] = old THEN new ELSE s[k]]

\* the pattern p occurs in s at position k
MatchAt(s, k, p) ==
  k >= 1 /\ k + Len(p) - 1 <= Len(s) /\ \A j \in 1..Len(p) : s[k + j - 1] = p[j]

\* the pattern p, in lower case, occurs in s at position k whatever the case (re.IGNORECASE)
MatchAtIgnoreCase(s, k, p) ==
  k >= 1 /\ k + Len(p) - 1 <= Len(s) /\ \A j \in 1..Len(p) : LowerChar(s[k + j - 1]) = p[j]

\* str.startswith(p)
StartsWith(s, p) == MatchAt(s, 1, p)

\* p in s
Contains(s, p) == \E k \in 1..Len(s) : MatchAt(s, k, p)

RECURSIVE Flatten(_)
Flatten(ss) == IF ss = << >> THEN << >> ELSE Head(ss) \o Flatten(Tail(ss))

RECURSIVE DigitsToInt(_)
DigitsToInt(ds) ==
  IF ds = << >> THEN 0 ELSE 10 * DigitsToInt(SubSeq(ds, 1, Len(ds) - 1)) + DigitVal(ds[Len(ds)])

RECURSIVE Pow10(_)
Pow10(n) == IF n = 0 THEN 1 ELSE 10 * Pow10(n - 1)

(***************************************************************************)
(* fetch_html_content.  net is what requests.get does for the locator:     *)
(* [status |-> n] for a response, or a RequestException.                   *)
(***************************************************************************)
RequestException == [status |-> 0, raised |-> TRUE]
Response(n) == [status |-> n, raised |-> FALSE]

RawHtml == <<"r","a","w","_","h","t","m","l">>
Url == <<"u","r","l">>
InvalidInputFormat == <<"I","n","v","a","l","i","d"," ","i","n","p","u","t"," ","f","o","r","m","a","t">>
RequestFailed == <<"R","e","q","u","e","s","t"," ","f","a","i","l","e","d",":"," ">>
HttpError == <<"H","T","T","P"," ","E","r","r","o","r"," ">>

UrlPrefixes == {<<"h","t","t","p",":","/","/">>, <<"h","t","t","p","s",":","/","/">>, <<"w","w","w",".">>}

\* the locator handed to requests.get
RequestUrl(stripped) ==
  IF StartsWith(stripped, <<"w","w","w",".">>) THEN <<"h","t","t","p","s",":","/","/">> \o stripped ELSE stripped

\* returns [content |-> whether html content is returned, source_type, calls]
\* requests.get and what follows it
request(stripped, response) ==
  IF response.raised
  THEN [content |-> FALSE, source_type |-> RequestFailed, code |-> 0,
        calls |-> <<[fn |-> "requests.get", arg |-> RequestUrl(stripped)]>>]
  ELSE IF response.status = HttpOk
  THEN [content |-> TRUE, source_type |-> Url, code |-> 0,
        calls |-> <<[fn |-> "requests.get", arg |-> RequestUrl(stripped)]>>]
  ELSE [content |-> FALSE, source_type |-> HttpError, code |-> response.status,
        calls |-> <<[fn |-> "requests.get", arg |-> RequestUrl(stripped)]>>]

fetch_stripped(stripped, response) ==
  IF StartsWith(stripped, <<"<">>) /\ Contains(stripped, <<">">>)
  THEN [content |-> TRUE, source_type |-> RawHtml, code |-> 0, calls |-> << >>]
  ELSE IF \E p \in UrlPrefixes : StartsWith(stripped, p)
  THEN request(stripped, response)
  ELSE [content |-> FALSE, source_type |-> InvalidInputFormat, code |-> 0, calls |-> << >>]

\* returns [content: whether html content is returned, source_type, code: the
\* status an HTTP error names, calls: the requests made]
fetch_html_content(text, response) == fetch_stripped(Strip(text), response)

(***************************************************************************)
(* The document tree (BeautifulSoup's result), in document order.  A node  *)
(* is [name, alt, src, style, text_len]: alt, src and style are optional   *)
(* attribute values, text_len is len(element.get_text(strip=True)).        *)
(***************************************************************************)
Node(name, alt, src, style, text_len) ==
  [name |-> name, alt |-> alt, src |-> src, style |-> style, text_len |-> text_len]

\* soup.find_all('img')
find_all_img(soup) == SelectSeq(soup, LAMBDA n : n.name = "img")

\* soup.find_all(style=True)
find_all_style(soup) == SelectSeq(soup, LAMBDA n : n.style # << >>)

\* soup.find_all(['p', 'div', 'span', 'li', 'td', 'th'])
TextTags == {"p", "div", "span", "li", "td", "th"}
find_all_text(soup) == SelectSeq(soup, LAMBDA n : n.name \in TextTags)

(***************************************************************************)
(* Issue records: the dictionaries the checkers append.  element is the    *)
(* label with its number and tag; description keeps the values the         *)
(* f-string interpolates.                                                  *)
(***************************************************************************)
Element(label, index, name) == [label |-> label, index |-> index, name |-> name]
Description(what, a, b, num, den, tenths) ==
  [what |-> what, a |-> a, b |-> b, num |-> num, den |-> den, tenths |-> tenths]
Issue(type, element, description, severity, wcag) ==
  [type |-> type, element |-> element, description |-> description,
   severity |-> severity, wcag |-> wcag]

(***************************************************************************)
(* check_alt_text                                                          *)
(***************************************************************************)
UnknownSource == <<"U","n","k","n","o","w","n"," ","s","o","u","r","c","e">>
GenericAltTexts == {<<"i","m","a","g","e">>, <<"p","i","c","t","u","r","e">>, <<"p","h","o","t","o">>, <<"i","m","g">>}
WcagAlt == "WCAG 2.1 Level A - 1.1.1"

AddImagesSuggestion == "Consider adding relevant images with proper alt text to enhance content."
AltSuggestions ==
  << "Write descriptive alt text that conveys the meaning and context of images",
     "Use empty alt='' for purely decorative images",
     "Avoid generic terms like 'image', 'picture', or 'photo'",
     "Keep alt text concise but meaningful (aim for 125 characters or less)" >>

\* img.get('src', 'Unknown source')
src_of(img) == IF img.src = << >> THEN UnknownSource ELSE img.src[1]

\* alt.strip().lower() in ['image', 'picture', 'photo', 'img']
is_generic_alt_unstripped(alt) == Lower(alt) \in GenericAltTexts
is_generic_alt(alt) == Lower(Strip(alt)) \in GenericAltTexts

AltIssue(type, i, what, quoted, severity) ==
  << Issue(type, Element("Image", i, "img"), Description(what, quoted, << >>, 0, 1, 0),
           severity, WcagAlt) >>

\* the body of the loop over enumerate(images, 1): the issues appended for image i
alt_issues_of(i, img) ==
  IF img.alt = << >>
  THEN AltIssue("Missing Alt Attribute", i, "has no alt attribute", src_of(img), "High")
  ELSE IF Strip(img.alt[1]) = << >>
  THEN AltIssue("Empty Alt Text", i, "has empty alt text (okay if decorative)", src_of(img),
                "Medium")
  ELSE IF is_generic_alt(img.alt[1])
  THEN AltIssue("Generic Alt Text", i, "is too generic and not descriptive", img.alt[1],
                "Medium")
  ELSE << >>

\* the suggestions generated once the loop is over
alt_suggestions(issues) == IF issues # << >> THEN AltSuggestions ELSE << >>

alt_result(issues) == [issues |-> issues, suggestions |-> alt_suggestions(issues)]

alt_loop(images) == Flatten([i \in 1..Len(images) |-> alt_issues_of(i, images[i])])

check_alt_text(soup) ==
  IF find_all_img(soup) = << >>
  THEN [issues |-> << >>, suggestions |-> <<AddImagesSuggestion>>]
  ELSE alt_result(alt_loop(find_all_img(soup)))

(***************************************************************************)
(* check_font_sizes                                                        *)
(***************************************************************************)
WcagFont == "WCAG 2.1 Level AA - 1.4.4"
WcagLongText == "WCAG 2.1 Level AAA - 2.4.8"
\* the alternation (px|pt|em|rem|%), tried left to right
FontUnits == << <<"p","x">>, <<"p","t">>, <<"e","m">>, <<"r","e","m">>, <<"%">> >>
FontSizeKey == <<"f","o","n","t","-","s","i","z","e",":">>

SmallFontSuggestions ==
  << "Use minimum 12px font size for body text (14px+ recommended)",
     "Ensure text can be zoomed to 200% without loss of functionality",
     "Test readability on different devices and screen sizes" >>
LongTextSuggestion ==
  "Break up long text blocks with headings, bullet points, or shorter paragraphs"

\* the end of the longest run of characters of s from position k on before the first position in stops
RunEnd(s, k, stops) ==
  IF stops \cap (k..Len(s)) = {}
  THEN Len(s)
  ELSE SetMin(stops \cap (k..Len(s))) - 1

\* the positions that end a run of \d, of \s and of [^;]
NonDigits(s) == {j \in 1..Len(s) : ~IsDigit(s[j])}

NonSpaces(s) == {j \in 1..Len(s) : ~IsSpace(s[j])}

Semicolons(s) == {j \in 1..Len(s) : s[j] = ";"}

\* (px|pt|em|rem|%) at position c (re.IGNORECASE): the alternatives that match
units_at(style, c) == {u \in 1..Len(FontUnits) : MatchAtIgnoreCase(style, c, FontUnits[u])}

\* (?:\.\d+)? after the digits ending at b: where the number ends
fraction_end(style, b) ==
  IF b + 2 <= Len(style) /\ style[b + 1] = "." /\ IsDigit(style[b + 2])
  THEN RunEnd(style, b + 2, NonDigits(style))
  ELSE b

\* the groups of a match whose digits are style[a..b] and whose number ends at c
font_size_groups(style, a, b, c) ==
  IF b >= a /\ units_at(style, c + 1) # {}
  THEN << [int  |-> SubSeq(style, a, b),
           frac |-> SubSeq(style, b + 2, c),
           unit |-> SubSeq(style, c + 1,
                           c + Len(FontUnits[SetMin(units_at(style, c + 1))]))] >>
  ELSE << >>

font_size_number(style, a, b) == font_size_groups(style, a, b, fraction_end(style, b))

\* font-size:\s*(\d+(?:\.\d+)?)(px|pt|em|rem|%) tried at position k of style
\* (re.IGNORECASE): << >> or << [int, frac, unit] >>, the digit groups and the
\* unit as matched
font_size_match_at(style, k) ==
  IF MatchAtIgnoreCase(style, k, FontSizeKey)
  THEN font_size_number(style, RunEnd(style, k + Len(FontSizeKey), NonSpaces(style)) + 1,
                        RunEnd(style, RunEnd(style, k + Len(FontSizeKey), NonSpaces(style)) + 1, NonDigits(style)))
  ELSE << >>

\* re.search: the leftmost position at which the pattern matches
font_size_match(style) ==
  IF \A k \in 1..Len(style) : font_size_match_at(style, k) = << >>
  THEN << >>
  ELSE font_size_match_at(style,
                          SetMin({k \in 1..Len(style) : font_size_match_at(style, k) # << >>}))

\* float(group(1)), kept exact as num/den
size_value(m) ==
  [num |-> DigitsToInt(m.int \o m.frac), den |-> Pow10(Len(m.frac))]

\* the if/elif chain converting to pixels; << >> for the final `else: continue`
pixel_size(size, unit) ==
  IF unit = <<"p","x">> THEN << [num |-> size.num, den |-> size.den] >>
  ELSE IF unit = <<"p","t">> THEN << [num |-> size.num * PtNum, den |-> size.den * PtDen] >>
  ELSE IF unit \in {<<"e","m">>, <<"r","e","m">>} THEN << [num |-> size.num * BasePx, den |-> size.den] >>
  ELSE IF unit = <<"%">> THEN << [num |-> size.num * BasePx, den |-> size.den * 100] >>
  ELSE << >>

\* pixel_size < 12
is_small(px) == px.num < MinFontPx * px.den

\* {pixel_size:.1f}: the value in tenths, rounded half to even
Tenths(px) ==
  IF 2 * ((10 * px.num) % px.den) > px.den
     \/ (2 * ((10 * px.num) % px.den) = px.den /\ ((10 * px.num) \div px.den) % 2 = 1)
  THEN (10 * px.num) \div px.den + 1
  ELSE (10 * px.num) \div px.den

small_font_issue(i, element, size, unit, px) ==
  IF px # << >> /\ is_small(px[1])
  THEN << Issue("Small Font Size", Element("Element", i, element.name),
                Description("may be too small for readability", unit, << >>,
                            size.num, size.den, Tenths(px[1])),
                "Medium", WcagFont) >>
  ELSE << >>

font_issue_of_size(i, element, size, unit) ==
  small_font_issue(i, element, size, unit, pixel_size(size, unit))

font_issue_of_match(i, element, m) ==
  IF m = << >> THEN << >>
  ELSE font_issue_of_size(i, element, size_value(m[1]), Lower(m[1].unit))

\* the body of the loop over enumerate(elements_with_styles, 1)
font_issues_of(i, element) == font_issue_of_match(i, element, font_size_match(element.style[1]))

font_loop(styled) == Flatten([i \in 1..Len(styled) |-> font_issues_of(i, styled[i])])

\* len(text) > 500
is_long_text(element) == element.text_len > LongTextLen

count_long_paragraphs(soup) == Len(SelectSeq(find_all_text(soup), is_long_text))

long_text_issue(long_paragraphs) ==
  IF long_paragraphs > 0
  THEN << Issue("Long Text Blocks", Element("elements", long_paragraphs, ""),
                Description("very long text blocks that may hurt readability",
                            << >>, << >>, long_paragraphs, 1, 0),
                "Low", WcagLongText) >>
  ELSE << >>

\* the suggestions generated after the two checks
font_suggestions_small_only(small_fonts_found, long_paragraphs) ==
  IF small_fonts_found THEN SmallFontSuggestions ELSE << >>
font_suggestions(small_fonts_found, long_paragraphs) ==
  (IF small_fonts_found THEN SmallFontSuggestions ELSE << >>)
  \o (IF long_paragraphs > 0 THEN <<LongTextSuggestion>> ELSE << >>)

font_result(small, long_paragraphs) ==
  [issues |-> small \o long_text_issue(long_paragraphs),
   suggestions |-> font_suggestions(small # << >>, long_paragraphs)]

check_font_sizes(soup) == font_result(font_loop(find_all_style(soup)), count_long_paragraphs(soup))

(***************************************************************************)
(* check_color_contrast                                                    *)
(***************************************************************************)
WcagContrast == "WCAG 2.1 Level AA - 1.4.3"
WcagColorUse == "WCAG 2.1 Level A - 1.4.1"
ColorKey == <<"c","o","l","o","r",":">>
BackgroundColorKey == <<"b","a","c","k","g","r","o","u","n","d","-","c","o","l","o","r",":">>

light_colors ==
  { <<"w","h","i","t","e">>, <<"#","f","f","f">>, <<"#","f","f","f","f","f","f">>, <<"#","f","0","f","0","f","0">>, <<"#","e","0","e","0","e","0">>,
    <<"y","e","l","l","o","w">>, <<"l","i","g","h","t","y","e","l","l","o","w">>, <<"l","i","g","h","t","g","r","a","y">>, <<"l","i","g","h","t","g","r","e","y">>, <<"b","e","i","g","e">> }
dark_colors_and_gray ==
  { <<"b","l","a","c","k">>, <<"#","0","0","0">>, <<"#","0","0","0","0","0","0">>, <<"#","3","3","3">>, <<"#","6","6","6">>,
    <<"n","a","v","y">>, <<"d","a","r","k","b","l","u","e">>, <<"d","a","r","k","g","r","e","e","n">>, <<"d","a","r","k","r","e","d">>, <<"p","u","r","p","l","e">>, <<"g","r","a","y">> }
dark_colors ==
  { <<"b","l","a","c","k">>, <<"#","0","0","0">>, <<"#","0","0","0","0","0","0">>, <<"#","3","3","3">>, <<"#","6","6","6">>,
    <<"n","a","v","y">>, <<"d","a","r","k","b","l","u","e">>, <<"d","a","r","k","g","r","e","e","n">>, <<"d","a","r","k","r","e","d">>, <<"p","u","r","p","l","e">> }

ContrastSuggestions ==
  << "Ensure text has at least 4.5:1 contrast ratio with background (7:1 for AAA compliance)",
     "Test colors using online contrast checkers",
     "Avoid using similar shades for text and background" >>
ColorUseSuggestion ==
  "Don't rely solely on color to convey information - use icons, text, or patterns too"

\* group(1) of <key>\s*([^;]+) when [^;]* spans style[from..to]: \s* is greedy but
\* gives its last character back when nothing else is left for [^;]+
decl_group(style, from, to, spaces_end) ==
  IF to < from THEN << >>
  ELSE IF spaces_end >= to THEN << SubSeq(style, to, to) >>
  ELSE << SubSeq(style, spaces_end + 1, to) >>

\* <key>\s*([^;]+) tried at position k of style (re.IGNORECASE): << >> or << group(1) >>
decl_match_at(style, k, key) ==
  IF MatchAtIgnoreCase(style, k, key)
  THEN decl_group(style, k + Len(key), RunEnd(style, k + Len(key), Semicolons(style)),
                  RunEnd(style, k + Len(key), NonSpaces(style)))
  ELSE << >>

\* re.search: the leftmost position at which the pattern matches
decl_match(style, key) ==
  IF \A k \in 1..Len(style) : decl_match_at(style, k, key) = << >>
  THEN << >>
  ELSE decl_match_at(style,
                     SetMin({k \in 1..Len(style) : decl_match_at(style, k, key) # << >>}), key)

\* any(c in token.lower() for c in colors)
any_in(token, colors) == \E c \in colors : Contains(Lower(token), c)

is_light(token) == any_in(token, light_colors)
is_dark(token) == any_in(token, dark_colors)

\* (text_is_light and bg_is_light) or (text_is_dark and bg_is_dark)
same_class(text_color, bg_color) ==
  \/ is_light(text_color) /\ is_light(bg_color)
  \/ is_dark(text_color) /\ is_dark(bg_color)

contrast_issue(i, element, text_color, bg_color) ==
  IF same_class(text_color, bg_color)
  THEN << Issue("Poor Color Contrast", Element("Element", i, element.name),
                Description("may have insufficient contrast", text_color, bg_color, 0, 1, 0),
                "High", WcagContrast) >>
  ELSE << >>

contrast_issue_of_match(i, element, color_match, bg_match) ==
  IF color_match # << >> /\ bg_match # << >>
  THEN contrast_issue(i, element, Strip(color_match[1]), Strip(bg_match[1]))
  ELSE << >>

\* the body of the loop over enumerate(elements_with_styles, 1)
contrast_issues_of(i, element) ==
  contrast_issue_of_match(i, element, decl_match(element.style[1], ColorKey),
                          decl_match(element.style[1], BackgroundColorKey))

contrast_loop(styled) == Flatten([i \in 1..Len(styled) |-> contrast_issues_of(i, styled[i])])

\* lambda tag: tag.get('style') and 'color:' in tag.get('style', '')
has_color(n) == n.style # << >> /\ n.style[1] # << >> /\ Contains(n.style[1], ColorKey)

count_with_color(soup) == Len(SelectSeq(soup, has_color))

color_dependency_issue(n_with_color) ==
  IF n_with_color > ColorCountThreshold
  THEN << Issue("Color Dependency", Element("elements", n_with_color, ""),
                Description("Heavy reliance on color", << >>, << >>, 0, 1, 0),
                "Medium", WcagColorUse) >>
  ELSE << >>

\* the suggestions generated after the two checks
color_suggestions_from_threshold(contrast_issues_found, n_with_color) ==
  (IF contrast_issues_found THEN ContrastSuggestions ELSE << >>)
  \o (IF n_with_color >= ColorCountThreshold THEN <<ColorUseSuggestion>> ELSE << >>)
color_suggestions(contrast_issues_found, n_with_color) ==
  (IF contrast_issues_found THEN ContrastSuggestions ELSE << >>)
  \o (IF n_with_color > ColorCountThreshold THEN <<ColorUseSuggestion>> ELSE << >>)

color_result(contrast, n_with_color) ==
  [issues |-> contrast \o color_dependency_issue(n_with_color),
   suggestions |-> color_suggestions(contrast # << >>, n_with_color)]

check_color_contrast(soup) ==
  color_result(contrast_loop(find_all_style(soup)), count_with_color(soup))

(***************************************************************************)
(* analyze_accessibility                                                   *)
(***************************************************************************)
\* every suggestion text of the program; a text's position stands for its bytes
SuggestionTexts ==
  <<AddImagesSuggestion>> \o AltSuggestions \o SmallFontSuggestions
  \o <<LongTextSuggestion>> \o ContrastSuggestions \o <<ColorUseSuggestion>>

HashSeeds == 1..NumSeeds

\* the hash table of a set has this many slots
HashSlots == 17

TextNumber == [s \in {SuggestionTexts[j] : j \in 1..Len(SuggestionTexts)} |->
                 CHOOSE j \in 1..Len(SuggestionTexts) : SuggestionTexts[j] = s]

\* the slot of hash(str) under the interpreter's hash seed (str hashes are
\* randomized per process): distinct texts get distinct slots, and the seed
\* permutes them
str_hash(s, seed) == (TextNumber[s] * seed) % HashSlots

Range(s) == {s[k] : k \in 1..Len(s)}

\* the set's iteration order: its table's slots, walked in order
iteration_order(S, seed) ==
  Flatten([h \in 1..HashSlots |->
             IF \E x \in S : str_hash(x, seed) = h - 1
             THEN << CHOOSE x \in S : str_hash(x, seed) = h - 1 >>
             ELSE << >>])

\* list(set(items))
list_of_set(items, seed) == iteration_order(Range(items), seed)

NoIssue == Issue("", Element("", 0, ""), Description("", << >>, << >>, 0, 1, 0), "", "")
Line(kind, issue, n, text, chars) ==
  [kind |-> kind, issue |-> issue, n |-> n, text |-> text, chars |-> chars]
TextLine(kind) == Line(kind, NoIssue, 0, "", << >>)

issue_lines(issues) == [k \in 1..Len(issues) |-> Line("issue", issues[k], 0, "", << >>)]

with_severity(issues, severity) == SelectSeq(issues, LAMBDA issue : issue.severity = severity)

section(header, issues) ==
  IF issues # << >> THEN <<TextLine(header)>> \o issue_lines(issues) ELSE << >>

HighHeader == "### High Priority Issues"
MediumHeader == "### Medium Priority Issues"
LowHeader == "### Low Priority Issues"

\* the three severity groups in the order the report renders them
severity_sections_medium_first(all_issues) ==
  section(MediumHeader, with_severity(all_issues, "Medium"))
  \o section(HighHeader, with_severity(all_issues, "High"))
  \o section(LowHeader, with_severity(all_issues, "Low"))
severity_sections(all_issues) ==
  section(HighHeader, with_severity(all_issues, "High"))
  \o section(MediumHeader, with_severity(all_issues, "Medium"))
  \o section(LowHeader, with_severity(all_issues, "Low"))

NoChecker == [issues |-> << >>, suggestions |-> << >>]
NoResult ==
  [stage |-> "none", report |-> << >>, status |-> "", count |-> 0, calls |-> << >>,
   alt |-> NoChecker, font |-> NoChecker, color |-> NoChecker,
   all_issues |-> << >>, all_suggestions |-> << >>, seed |-> 0]

Return(stage, report, status, count, calls) ==
  [NoResult EXCEPT !.stage = stage, !.report = report, !.status = status,
                   !.count = count, !.calls = calls]

Call(fn) == [fn |-> fn, arg |-> << >>]

\* all_suggestions[:3]
first_three(all_suggestions) ==
  SubSeq(all_suggestions, 1,
         IF Len(all_suggestions) < TopSuggestions THEN Len(all_suggestions) ELSE TopSuggestions)

bullets(shown) == [k \in 1..Len(shown) |-> Line("bullet", NoIssue, 0, shown[k], << >>)]

\* the report for an empty all_issues
no_issues_report(all_suggestions) ==
  <<TextLine("**Great news!** No major accessibility issues detected."),
    TextLine("However, consider these general best practices:")>>
  \o bullets(first_three(all_suggestions))

recommended_actions(all_suggestions) ==
  IF all_suggestions # << >>
  THEN <<TextLine("## Recommended Actions")>>
       \o [k \in 1..Len(all_suggestions) |->
             Line("numbered", NoIssue, k, all_suggestions[k], << >>)]
  ELSE << >>

\* the detailed report
detailed_report(source_type, all_issues, all_suggestions) ==
  <<TextLine("## Accessibility Analysis Report"),
    Line("**Issues Found:**", NoIssue, Len(all_issues), "", << >>),
    Line("**Source:**", NoIssue, 0, "", Title(Replace(source_type, "_", " ")))>>
  \o severity_sections(all_issues)
  \o recommended_actions(all_suggestions)

\* what analyze_accessibility returns once the checkers have run
core_return(source_type, calls, alt, font, color, all_issues, all_suggestions, seed) ==
  [stage |-> "core",
   report |-> IF all_issues = << >>
              THEN no_issues_report(all_suggestions)
              ELSE detailed_report(source_type, all_issues, all_suggestions),
   status |-> IF all_issues = << >>
              THEN "Accessibility check completed successfully!"
              ELSE "Analysis completed! Found N accessibility issues.",
   count |-> Len(all_issues), calls |-> calls,
   alt |-> alt, font |-> font, color |-> color,
   all_issues |-> all_issues, all_suggestions |-> all_suggestions, seed |-> seed]

\* all_issues and all_suggestions from the three checkers' results
combine(source_type, calls, alt, font, color, seed) ==
  core_return(source_type, calls, alt, font, color,
              alt.issues \o font.issues \o color.issues,
              list_of_set(alt.suggestions \o font.suggestions \o color.suggestions, seed), seed)

CoreCalls ==
  <<Call("BeautifulSoup"), Call("check_alt_text"), Call("check_font_sizes"),
    Call("check_color_contrast")>>

\* analyze_accessibility from the result of fetch_html_content on
after_fetch(fetched, calls, soup, parse_ok, seed) ==
  IF ~fetched.content
  THEN Return("fetch_error",
              <<Line("Error: ", NoIssue, fetched.code, "", fetched.source_type)>>,
              "Error occurred", 0, calls \o fetched.calls)
  ELSE IF ~parse_ok
  THEN Return("parse_error", <<TextLine("Error parsing HTML: ")>>, "Parsing error", 0,
              calls \o fetched.calls \o <<Call("BeautifulSoup")>>)
  ELSE combine(fetched.source_type, calls \o fetched.calls \o CoreCalls,
               check_alt_text(soup), check_font_sizes(soup), check_color_contrast(soup), seed)

\* if not input_text.strip()
is_blank_unstripped(text) == text = << >>
is_blank(text) == Strip(text) = << >>

analyze_accessibility(text, response, soup, parse_ok, seed) ==
  IF is_blank(text)
  THEN Return("blank", <<TextLine("Please provide a URL or HTML content to analyze.")>>,
              "Ready to analyze...", 0, << >>)
  ELSE after_fetch(fetch_html_content(text, response), <<Call("fetch_html_content")>>,
                   soup, parse_ok, seed)

(***************************************************************************)
(* The inputs: what the user types, what the network answers, and the      *)
(* tree the markup parses to.                                              *)
(***************************************************************************)
NoRequest == Response(0)

\* <<input_text, net>>: net matters only when the text is a locator
InputCases ==
  { << <<>>, NoRequest >>,
    << <<" "," ">>, NoRequest >>,
    << <<" ","<","a",">"," ">>, NoRequest >>,
    << <<"<","a">>, NoRequest >>,
    << <<"h","i">>, NoRequest >>,
    << <<"h","t","t","p",":","/","/","h">>, Response(HttpOk) >>,
    << <<"h","t","t","p",":","/","/","h">>, Response(404) >>,
    << <<"h","t","t","p","s",":","/","/","h">>, RequestException >>,
    << <<"w","w","w",".","h">>, Response(500) >> }

Img(alt, src) == Node("img", alt, src, << >>, 0)
Styled(name, style, text_len) == Node(name, << >>, << >>, <<style>>, text_len)
Plain(name, text_len) == Node(name, << >>, << >>, << >>, text_len)

\* <span style="color: red">: a page may end in a run of these
ColoredSpan == Styled("span", <<"c","o","l","o","r",":"," ","r","e","d">>, 4)

NodeKinds ==
  { Img(<< >>, << <<"l","o","g","o",".","j","p","g">> >>),
    Img(<< <<>> >>, << >>),
    Img(<< <<" ">> >>, << <<"a",".","p","n","g">> >>),
    Img(<< <<" ","P","h","o","t","o"," ">> >>, << >>),
    Img(<< <<"L","o","g","o">> >>, << >>),
    Styled("p", <<"f","o","n","t","-","s","i","z","e",":"," ","8","p","x",";">>, 4),
    Styled("h1", <<"c","o","l","o","r",":"," ","y","e","l","l","o","w",";"," ","b","a","c","k","g","r","o","u","n","d","-","c","o","l","o","r",":"," ","w","h","i","t","e",";">>, 7),
    Styled("p", <<"f","o","n","t","-","s","i","z","e",":"," ","9","p","t">>, 501),
    Plain("div", 501),
    Plain("p", 500),
    ColoredSpan }

Decl(prop, value) == prop \o <<":"," ">> \o value
Then(d1, d2) == d1 \o <<";"," ">> \o d2

ProbeColors ==
  light_colors \cup dark_colors
  \cup { <<"r","e","d">>, <<"#","F","F","F">>, <<"B","l","a","c","k">>, <<"l","i","g","h","t","-","d","a","r","k","(","#","f","f","f",",","#","0","0","0",")">> }
ProbeBackgrounds == { <<"w","h","i","t","e">>, <<"#","3","3","3">> }
ReversedColors == { <<"n","a","v","y">>, <<"r","e","d">>, <<"b","l","a","c","k">> }
ReversedBackgrounds == { <<"l","i","g","h","t","g","r","a","y">>, <<"w","h","i","t","e">> }
ProbeSizes ==
  { <<"8","p","x">>, <<"1","2","p","x">>, <<"1","1",".","9","9","p","x">>, <<"9","p","t">>, <<"9",".","0","3","p","t">>, <<"1","e","m">>, <<"0",".","7","4","e","m">>, <<"0",".","7","5","r","e","m">>,
    <<"7","5","%">>, <<"7","4",".","9","%">>, <<".","7","e","m">>, <<"8","v","w">>, <<"8","P","X">>, <<"1","2">> }

\* inline style texts of the probed elements
StyleSamples ==
  { Then(Decl(<<"c","o","l","o","r">>, c), Decl(<<"b","a","c","k","g","r","o","u","n","d","-","c","o","l","o","r">>, b)) :
      c \in ProbeColors, b \in ProbeBackgrounds }
  \cup { Then(Decl(<<"b","a","c","k","g","r","o","u","n","d","-","c","o","l","o","r">>, b), Decl(<<"c","o","l","o","r">>, c)) :
      c \in ReversedColors, b \in ReversedBackgrounds }
  \cup { Decl(<<"f","o","n","t","-","s","i","z","e">>, s) : s \in ProbeSizes }
  \cup { <<"b","a","c","k","g","r","o","u","n","d","-","c","o","l","o","r",":"," ","w","h","i","t","e">>, <<"c","o","l","o","r",":"," ","w","h","i","t","e">>, <<>>,
         <<"F","O","N","T","-","S","I","Z","E",":","8","P","X">>, <<"c","o","l","o","r",":"," ","n","a","v","y",";"," ","f","o","n","t","-","s","i","z","e",":"," ","1","1",".","9","9","p","x">> }

(***************************************************************************)
(* The state machine.  input_text and net are the request; page is the     *)
(* tree BeautifulSoup builds from the acquired markup; result is what the  *)
(* last call of analyze_accessibility returned, with the values it         *)
(* computed on the way.                                                    *)
(***************************************************************************)
Init ==
  /\ \E c \in InputCases : input_text = c[1] /\ net = c[2]
  /\ page = << >>
  /\ result = NoResult

\* there is markup to parse
HasContent == ~is_blank(input_text) /\ fetch_html_content(input_text, net).content

\* the markup holds one more element
ParseNode(n) ==
  /\ result.stage = "none"
  /\ HasContent
  /\ Len(page) < MaxNodes
  /\ page' = Append(page, n)
  /\ UNCHANGED <<input_text, net, result>>

\* the markup goes on with a run of n colored spans and ends
ParseColoredSpans(n) ==
  /\ result.stage = "none"
  /\ HasContent
  /\ Len(page) = MaxNodes
  /\ page' = page \o [k \in 1..n |-> ColoredSpan]
  /\ UNCHANGED <<input_text, net, result>>

\* the literal markup holds one more styled paragraph
ParseStyled(style) ==
  /\ result.stage = "none"
  /\ HasContent
  /\ fetch_html_content(input_text, net).source_type = RawHtml
  /\ Len(page) < MaxStyled
  /\ page' = Append(page, Styled("p", style, 4))
  /\ UNCHANGED <<input_text, net, result>>

\* the first call of analyze_accessibility, in an interpreter with some hash seed
Analyze ==
  /\ result.stage = "none"
  /\ \E seed \in HashSeeds, parse_ok \in BOOLEAN :
       result' = analyze_accessibility(input_text, net, page, parse_ok, seed)
  /\ UNCHANGED <<input_text, net, page>>

\* the interpreter is restarted, with another hash seed, and the same request is
\* analyzed again
AnalyzeAgain ==
  /\ result.stage = "core"
  /\ result' = analyze_accessibility(input_text, net, page, TRUE, (result.seed % NumSeeds) + 1)
  /\ UNCHANGED <<input_text, net, page>>

Next ==
  \/ \E n \in NodeKinds : ParseNode(n)
  \/ \E n \in ColorCountThreshold..MaxFill : ParseColoredSpans(n)
  \/ Analyze
  \/ AnalyzeAgain

Spec == Init /\ [][Next]_vars

NextStyle ==
  \/ \E style \in StyleSamples : ParseStyled(style)
  \/ Analyze
  \/ AnalyzeAgain

SpecStyle == Init /\ [][NextStyle]_vars

(***************************************************************************)
(* What the properties speak of.                                           *)
(***************************************************************************)
Core == result.stage = "core"
Analyzed == result.stage # "none"
Images == find_all_img(page)
StyledNodes == find_all_style(page)

\* some issue of this type is labelled with number i
Flagged(issues, type, i) ==
  \E k \in 1..Len(issues) : issues[k].type = type /\ issues[k].element.index = i

\* The declarations an inline style text makes, read as CSS reads it: the text
\* is cut at its semicolons, each piece at its first colon, and both sides are
\* trimmed; property names are case-insensitive.
CssCuts(style) == {0, Len(style) + 1} \cup {k \in 1..Len(style) : style[k] = ";"}
CssPieces(style) ==
  {p \in CssCuts(style) \X CssCuts(style) :
     p[1] < p[2] /\ \A c \in CssCuts(style) : ~(p[1] < c /\ c < p[2])}
ColonsOf(style, p) == {k \in (p[1] + 1)..(p[2] - 1) : style[k] = ":"}
CssDeclarations(style) ==
  {[at |-> p[1],
    property |-> Lower(Strip(SubSeq(style, p[1] + 1, SetMin(ColonsOf(style, p)) - 1))),
    value |-> Strip(SubSeq(style, SetMin(ColonsOf(style, p)) + 1, p[2] - 1))] :
     p \in {q \in CssPieces(style) : ColonsOf(style, q) # {}}}
Declared(style, property) == {d \in CssDeclarations(style) : d.property = property}
DeclaredOnce(style, property) == Cardinality(Declared(style, property)) = 1
ValueOf(style, property) == (CHOOSE d \in Declared(style, property) : TRUE).value

Indeterminate(token) == ~is_light(token) /\ ~is_dark(token)

\* C1: a styled node that declares both color and background-color, in either
\* order, gets a Poor Color Contrast issue exactly when the two declared values
\* are both Light or both Dark; a Dark color on a Light background gets none.
C1_ContrastIffSameClass ==
  Core =>
    \A i \in 1..Len(StyledNodes) :
      LET style == StyledNodes[i].style[1]
      IN  (DeclaredOnce(style, <<"c","o","l","o","r">>) /\ DeclaredOnce(style, <<"b","a","c","k","g","r","o","u","n","d","-","c","o","l","o","r">>))
          => (Flagged(result.color.issues, "Poor Color Contrast", i)
              <=> same_class(ValueOf(style, <<"c","o","l","o","r">>), ValueOf(style, <<"b","a","c","k","g","r","o","u","n","d","-","c","o","l","o","r">>)))

\* C2: a styled node that lacks the color declaration or the background-color
\* declaration, or one of whose two colors is Indeterminate, gets no Poor Color
\* Contrast issue.
C2_NoContrastWhenIncomplete ==
  Core =>
    \A i \in 1..Len(StyledNodes) :
      LET style == StyledNodes[i].style[1]
      IN  (\/ Declared(style, <<"c","o","l","o","r">>) = {}
           \/ Declared(style, <<"b","a","c","k","g","r","o","u","n","d","-","c","o","l","o","r">>) = {}
           \/ /\ DeclaredOnce(style, <<"c","o","l","o","r">>)
              /\ DeclaredOnce(style, <<"b","a","c","k","g","r","o","u","n","d","-","c","o","l","o","r">>)
              /\ \/ Indeterminate(ValueOf(style, <<"c","o","l","o","r">>))
                 \/ Indeterminate(ValueOf(style, <<"b","a","c","k","g","r","o","u","n","d","-","c","o","l","o","r">>)))
          => ~Flagged(result.color.issues, "Poor Color Contrast", i)

\* the two color tokens check_color_contrast extracts from a style text, when
\* it extracts them
TokensOf(style) ==
  IF decl_match(style, ColorKey) # << >> /\ decl_match(style, BackgroundColorKey) # << >>
  THEN << Strip(decl_match(style, ColorKey)[1]), Strip(decl_match(style, BackgroundColorKey)[1]) >>
  ELSE << >>

\* C3 as stated: no extracted color token is classified both Light and Dark.
C3_NeverLightAndDark ==
  Core =>
    \A i \in 1..Len(StyledNodes) :
      \A t \in Range(TokensOf(StyledNodes[i].style[1])) : ~(is_light(t) /\ is_dark(t))

\* C3 as amended: an extracted token that is one of the twenty reference
\* strings, in any letter case, is classified into its own set only (so two
\* reference tokens are flagged exactly when they come from the same set); and
\* whatever the tokens, the node is flagged exactly when both are classified
\* Light or both Dark, a token classified both ways counting for either.
C3_ReferenceTokensExclusive ==
  Core =>
    \A i \in 1..Len(StyledNodes) :
      LET tokens == TokensOf(StyledNodes[i].style[1])
          flagged == Flagged(result.color.issues, "Poor Color Contrast", i)
      IN  /\ \A t \in Range(tokens) :
               /\ Lower(t) \in light_colors => (is_light(t) /\ ~is_dark(t))
               /\ Lower(t) \in dark_colors => (is_dark(t) /\ ~is_light(t))
               /\ Indeterminate(t) => Lower(t) \notin light_colors \cup dark_colors
          /\ tokens = << >> => ~flagged
          /\ tokens # << >> =>
               /\ (\A t \in Range(tokens) : Lower(t) \in light_colors \cup dark_colors)
                  => (flagged <=> (Lower(tokens[1]) \in light_colors
                                   <=> Lower(tokens[2]) \in light_colors))
               /\ (is_light(tokens[1]) /\ is_dark(tokens[1]) /\ ~Indeterminate(tokens[2]))
                  => flagged

\* a Light reference token on a Dark reference token has been analyzed
C3_Witness ==
  /\ Core
  /\ \E i \in 1..Len(StyledNodes) :
       LET tokens == TokensOf(StyledNodes[i].style[1])
       IN  /\ tokens # << >>
           /\ Lower(tokens[1]) \in light_colors
           /\ Lower(tokens[2]) \in dark_colors
           /\ ~Flagged(result.color.issues, "Poor Color Contrast", i)

\* The value of a font-size declaration read as a number and a unit: digits
\* with an optional fraction, or a fraction alone, then the unit.
SizeParts(value) ==
  LET low == Lower(value)
      a == RunEnd(low, 1, NonDigits(low))
      c == fraction_end(low, a)
  IN  [numeric |-> c >= 1,
       num |-> DigitsToInt(SubSeq(low, 1, a) \o SubSeq(low, a + 2, c)),
       den |-> Pow10(IF c > a THEN c - a - 1 ELSE 0),
       unit |-> SubSeq(low, c + 1, Len(low))]
RecognizedUnits == {<<"p","x">>, <<"p","t">>, <<"e","m">>, <<"r","e","m">>, <<"%">>}

\* the normalized pixel value is below 12: px as is, pt x 1.33, em and rem x 16,
\* % /100 x 16
BelowTwelve(parts) ==
  IF parts.unit = <<"p","x">> THEN parts.num < 12 * parts.den
  ELSE IF parts.unit = <<"p","t">> THEN parts.num * 133 < 1200 * parts.den
  ELSE IF parts.unit = <<"%">> THEN parts.num * 16 < 1200 * parts.den
  ELSE parts.num * 16 < 12 * parts.den

\* C5: a styled node with a font-size declaration of a numeric magnitude and a
\* recognized unit gets a Small Font Size issue exactly when the normalized
\* pixel value, unrounded, is below 12; a node with no font-size declaration or
\* with an unrecognized unit gets none.
C5_SmallFontIffBelowTwelve ==
  Core =>
    \A i \in 1..Len(StyledNodes) :
      LET style == StyledNodes[i].style[1]
          flagged == Flagged(result.font.issues, "Small Font Size", i)
      IN  /\ Declared(style, <<"f","o","n","t","-","s","i","z","e">>) = {} => ~flagged
          /\ DeclaredOnce(style, <<"f","o","n","t","-","s","i","z","e">>) =>
               LET parts == SizeParts(ValueOf(style, <<"f","o","n","t","-","s","i","z","e">>))
               IN  IF parts.numeric /\ parts.unit \in RecognizedUnits
                   THEN flagged <=> BelowTwelve(parts)
                   ELSE ~flagged

\* the issue check_alt_text owes image i: its type and severity, or none
OwedAltIssue(img) ==
  IF img.alt = << >> THEN << <<"Missing Alt Attribute", "High">> >>
  ELSE IF \A k \in 1..Len(img.alt[1]) : IsSpace(img.alt[1][k])
  THEN << <<"Empty Alt Text", "Medium">> >>
  ELSE IF Lower(Strip(img.alt[1])) \in {<<"i","m","a","g","e">>, <<"p","i","c","t","u","r","e">>, <<"p","h","o","t","o">>, <<"i","m","g">>}
  THEN << <<"Generic Alt Text", "Medium">> >>
  ELSE << >>

IssuesOfImage(i) ==
  {k \in 1..Len(result.alt.issues) : result.alt.issues[k].element.index = i}

\* C4: check_alt_text emits at most one issue per image, in document order and
\* labelled with the image's 1-based position among the images: Missing Alt
\* Attribute/High without alt, Empty Alt Text/Medium for an alt that trims to
\* empty, Generic Alt Text/Medium for an alt that trims, whatever the case, to
\* image, picture, photo or img, none otherwise; so there are as many Missing
\* Alt Attribute issues as images without alt.
C4_OneAltIssuePerImage ==
  Core =>
    /\ \A i \in 1..Len(Images) :
         /\ Cardinality(IssuesOfImage(i)) = Len(OwedAltIssue(Images[i]))
         /\ \A k \in IssuesOfImage(i) :
              /\ result.alt.issues[k].type = OwedAltIssue(Images[i])[1][1]
              /\ result.alt.issues[k].severity = OwedAltIssue(Images[i])[1][2]
              /\ result.alt.issues[k].element.label = "Image"
    /\ \A k \in 1..Len(result.alt.issues) :
         result.alt.issues[k].element.index \in 1..Len(Images)
    /\ \A k, l \in 1..Len(result.alt.issues) :
         k < l => result.alt.issues[k].element.index < result.alt.issues[l].element.index
    /\ Cardinality({k \in 1..Len(result.alt.issues) :
                      result.alt.issues[k].type = "Missing Alt Attribute"})
       = Cardinality({i \in 1..Len(Images) : Images[i].alt = << >>})

\* two images, the first with a generic alt padded with spaces and in capitals,
\* the second without alt, have been analyzed
C4_Witness ==
  /\ Core
  /\ Len(Images) = 2
  /\ Images[1].alt = << <<" ","P","h","o","t","o"," ">> >>
  /\ Images[2].alt = << >>
  /\ Len(result.alt.issues) = 2
  /\ result.alt.issues[2].element.index = 2

SeverityRank(severity) ==
  IF severity = "High" THEN 1 ELSE IF severity = "Medium" THEN 2 ELSE 3
HeaderOf(severity) ==
  IF severity = "High" THEN HighHeader ELSE IF severity = "Medium" THEN MediumHeader ELSE LowHeader

IssueLines == {k \in 1..Len(result.report) : result.report[k].kind = "issue"}
PlaceOf(issue) == CHOOSE j \in 1..Len(result.all_issues) : result.all_issues[j] = issue

\* C6: the non-empty report renders every merged issue exactly once, all High
\* before all Medium before all Low and, within a severity, in the order of the
\* Alt, Font, Color concatenation; a severity's section appears exactly when
\* some issue has that severity.
C6_ReportGroupedBySeverity ==
  (Core /\ result.all_issues # << >>) =>
    /\ result.all_issues = result.alt.issues \o result.font.issues \o result.color.issues
    /\ Cardinality(IssueLines) = Len(result.all_issues)
    /\ \A j \in 1..Len(result.all_issues) :
         Cardinality({k \in IssueLines : result.report[k].issue = result.all_issues[j]}) = 1
    /\ \A k, l \in IssueLines :
         k < l =>
           LET a == result.report[k].issue
               b == result.report[l].issue
           IN  /\ SeverityRank(a.severity) <= SeverityRank(b.severity)
               /\ a.severity = b.severity => PlaceOf(a) < PlaceOf(b)
    /\ \A severity \in {"High", "Medium", "Low"} :
         /\ Cardinality({k \in 1..Len(result.report) :
                           result.report[k].kind = HeaderOf(severity)})
            = IF \E j \in 1..Len(result.all_issues) : result.all_issues[j].severity = severity
              THEN 1 ELSE 0
         /\ \A h \in 1..Len(result.report), k \in IssueLines :
              (result.report[h].kind = HeaderOf(severity)
               /\ result.report[k].issue.severity = severity) => h < k

\* a report with all three sections whose merged list holds a Medium issue
\* before a High issue of a later checker
C6_Witness ==
  /\ Core
  /\ \E h, m, l \in 1..Len(result.report) :
       /\ result.report[h].kind = HighHeader
       /\ result.report[m].kind = MediumHeader
       /\ result.report[l].kind = LowHeader
  /\ \E j, k \in 1..Len(result.all_issues) :
       /\ j < k
       /\ result.all_issues[j].severity = "Medium"
       /\ result.all_issues[k].severity = "High"

\* C7: a second call of analyze_accessibility on the same input and the same
\* document tree returns the same report, suggestions and their numbering
\* included.
C7_SameReportAgain ==
  [][(result.stage = "core" /\ result'.stage = "core") => result'.report = result.report]_vars

\* C8: a checker that returns issues returns suggestions too, so the merged
\* suggestions are not empty when the merged issues are not.
C8_IssuesComeWithSuggestions ==
  Core =>
    /\ result.alt.issues # << >> => result.alt.suggestions # << >>
    /\ result.font.issues # << >> => result.font.suggestions # << >>
    /\ result.color.issues # << >> => result.color.suggestions # << >>
    /\ result.all_issues # << >> => result.all_suggestions # << >>

\* the font checker has returned the Long Text Blocks issue alone
C8_Witness ==
  /\ Core
  /\ Len(result.font.issues) = 1
  /\ result.font.issues[1].type = "Long Text Blocks"
  /\ result.font.suggestions = <<LongTextSuggestion>>

InputBlank == \A k \in 1..Len(input_text) : IsSpace(input_text[k])
LooksLikeMarkup ==
  StartsWith(Strip(input_text), <<"<">>) /\ \E k \in 1..Len(input_text) : input_text[k] = ">"
LooksLikeLocator ==
  \E p \in {<<"h","t","t","p",":","/","/">>, <<"h","t","t","p","s",":","/","/">>, <<"w","w","w",".">>} : StartsWith(Strip(input_text), p)
AcquisitionFails ==
  /\ ~InputBlank
  /\ ~LooksLikeMarkup
  /\ LooksLikeLocator => (net.raised \/ net.status # 200)
CalledAfterFetch ==
  {k \in 1..Len(result.calls) :
     result.calls[k].fn \in {"BeautifulSoup", "check_alt_text", "check_font_sizes",
                             "check_color_contrast"}}

\* C9: blank or whitespace-only input returns the please-provide-input response
\* before fetch_html_content is attempted; an acquisition failure (a status
\* other than 200, a transport error, an invalid format) returns an error
\* report before parsing or any checker is invoked; the issue count is 0 in
\* both cases.
C9_ShortCircuits ==
  Analyzed =>
    /\ InputBlank =>
         /\ result.report = <<TextLine("Please provide a URL or HTML content to analyze.")>>
         /\ result.calls = << >>
         /\ result.count = 0
    /\ AcquisitionFails =>
         /\ Len(result.report) = 1
         /\ result.report[1].kind = "Error: "
         /\ result.calls # << >>
         /\ result.calls[1].fn = "fetch_html_content"
         /\ CalledAfterFetch = {}
         /\ result.count = 0

\* whitespace-only input has been analyzed
C9_Witness ==
  /\ Analyzed
  /\ InputBlank
  /\ input_text # << >>
  /\ result.stage = "blank"

Bullets == {k \in 1..Len(result.report) : result.report[k].kind = "bullet"}

\* C10: when the merged issue list is empty the merged suggestions hold at most
\* one text, the add-images suggestion of a document without images, so the
\* first-three cut of the no-issues report drops nothing; and the font and color
\* checkers never return a suggestion without an issue.
C10_NoIssuesAtMostOneSuggestion ==
  Core =>
    /\ result.font.suggestions # << >> => result.font.issues # << >>
    /\ result.color.suggestions # << >> => result.color.issues # << >>
    /\ result.all_issues = << >> =>
         /\ Len(result.all_suggestions) <= 1
         /\ result.all_suggestions # << >> =>
              (result.all_suggestions = <<AddImagesSuggestion>> /\ Images = << >>)
         /\ Cardinality(Bullets) = Len(result.all_suggestions)
         /\ \A k \in Bullets : \E j \in 1..Len(result.all_suggestions) :
              result.report[k].text = result.all_suggestions[j]

\* a document without images and without issues, holding as many colored
\* elements as the color threshold, has been analyzed
C10_Witness ==
  /\ Core
  /\ result.all_issues = << >>
  /\ result.all_suggestions = <<AddImagesSuggestion>>
  /\ Cardinality(Bullets) = 1
  /\ count_with_color(page) = ColorCountThreshold
====
